---- MODULE Spec2Model ----
(***************************************************************************)
(* Model of fen-generator (src/src/lib.rs): the coordinate mapping,        *)
(* Board::random (random placement of the two kings) and Board::to_str_fen *)
(* (FEN serialisation), as called by random_fen.                           *)
(*                                                                         *)
(* Text is modelled as a sequence of one-character strings.                *)
(***************************************************************************)
EXTENDS Integers, Sequences, FiniteSets

VARIABLES
    pc,                  \* position in random_fen / Board::random
    squares,             \* board.squares : [Option<Piece>; N_SQUARES]
    turn,                \* board.turn
    white_king_pos,
    black_king_pos,
    occupied_squares,    \* [bool; N_SQUARES]
    free_squares_n,      \* i8
    free_square_indexes, \* [usize; N_SQUARES - 4]
    j,                   \* next index of free_square_indexes to write
    i,                   \* loop variable of `for i in 0..N_SQUARES`
    k,                   \* position in `for &delta in &KING_MOVES` (1-based)
    bk_draw,             \* the value returned by the third rng call
    draws,               \* the calls made on the random source, in order
    fen,                 \* the String returned by to_str_fen
    in_file, in_rank,    \* arguments of board_index
    out_index,           \* result of board_index
    out_coords           \* result of board_index_reverse

vars == <<pc, squares, turn, white_king_pos, black_king_pos, occupied_squares,
          free_squares_n, free_square_indexes, j, i, k, bk_draw, draws, fen,
          in_file, in_rank, out_index, out_coords>>

----------------------------------------------------------------------------
(* Data model *)

N_SQUARES == 64

Colors == {"White", "Black"}

PieceTypes == {"Pawn", "Rook", "Knight", "Bishop", "Queen", "King"}

\* Option<Piece>::None
None == [tag |-> "None"]

\* Some(Piece { piece_type, color })
Some(piece_type, color) ==
    [tag |-> "Some", piece_type |-> piece_type, color |-> color]

Pieces == {Some(t, c) : t \in PieceTypes, c \in Colors}

NoValue == "unset"

----------------------------------------------------------------------------
(* Coordinate mapping *)

\* Mutant of board_index: file and rank exchanged.
board_index_swapped(file, rank) == 8 * file + rank

\* The debug_assert holds at every call: callers pass 0 .. 7 only.
board_index(file, rank) == 8 * rank + file

board_index_reverse(index) == <<index % 8, index \div 8>>

----------------------------------------------------------------------------
(* Board::new *)

Board_new == [squares |-> [s \in 0 .. N_SQUARES - 1 |-> None], turn |-> "White"]

----------------------------------------------------------------------------
(* The random source: rng.random_bool(p) returns either boolean,           *)
(* rng.random_range(lo..hi) returns any value of lo .. hi-1 and panics on  *)
(* an empty range.  Each call is appended to `draws`.                      *)

RandomBoolCall == [call |-> "random_bool", lo |-> 0, hi |-> 2]

RandomRangeCall(lo, hi) == [call |-> "random_range", lo |-> lo, hi |-> hi]

RandomRange(lo, hi) == lo .. hi - 1

----------------------------------------------------------------------------
(* Board::random *)

KING_MOVES ==
    << <<1, 1>>, <<1, -1>>, <<1, 0>>, <<0, 1>>,
       <<0, -1>>, <<-1, 1>>, <<-1, -1>>, <<-1, 0>> >>

\* Mutant of OnBoard: the test `curr_file >= 8` is missing.
OnBoard_NoUpperFileCheck(curr_file, curr_rank) ==
    /\ ~(curr_file < 0 \/ curr_rank < 0)
    /\ ~(curr_rank >= 8)

\* The two `continue` tests of the KING_MOVES loop, negated.
OnBoard(curr_file, curr_rank) ==
    /\ ~(curr_file < 0 \/ curr_rank < 0)
    /\ ~(curr_file >= 8 \/ curr_rank >= 8)

\* Mutant of InitialFreeSquaresN: the White King's own square not counted.
InitialFreeSquaresN_Stale == N_SQUARES

\* free_squares_n right after the White King is placed.  It is an i8 that
\* only decreases from here, by at most 8: it stays within 55 .. 63.
InitialFreeSquaresN == N_SQUARES - 1

\* Mutant of OccupiedAfterWhiteKing: the White King's square is not marked.
OccupiedAfterWhiteKing_Unmarked(pos) == [s \in 0 .. N_SQUARES - 1 |-> FALSE]

\* occupied_squares = [false; N_SQUARES] with occupied_squares[pos] = true.
OccupiedAfterWhiteKing(pos) ==
    [[s \in 0 .. N_SQUARES - 1 |-> FALSE] EXCEPT ![pos] = TRUE]

\* Length of free_square_indexes.
FreeSquareIndexesLen == N_SQUARES - 4

\* Mutants of BlackKingRangeEnd: the range one too long, one too short.
BlackKingRangeEnd_OffByOne(n) == n + 1

BlackKingRangeEnd_Short(n) == n - 1

\* The end of the range handed to the Black King draw.
BlackKingRangeEnd(n) == n

\* State at the entry of random_fen: `board` is Board::new().
Init ==
    /\ pc = "draw_turn"
    /\ squares = Board_new.squares
    /\ turn = Board_new.turn
    /\ white_king_pos = 0
    /\ black_king_pos = 0
    /\ occupied_squares = [s \in 0 .. N_SQUARES - 1 |-> FALSE]
    /\ free_squares_n = 0
    /\ free_square_indexes = [x \in 0 .. FreeSquareIndexesLen - 1 |-> 0]
    /\ j = 0
    /\ i = 0
    /\ k = 1
    /\ bk_draw = NoValue
    /\ draws = << >>
    /\ fen = << >>
    /\ in_file = NoValue
    /\ in_rank = NoValue
    /\ out_index = NoValue
    /\ out_coords = NoValue

idxVars == <<in_file, in_rank, out_index, out_coords>>

\* board.turn = match rng.random_bool(0.5) { true => White, false => Black }
DrawTurn ==
    /\ pc = "draw_turn"
    /\ \E b \in BOOLEAN : turn' = IF b THEN "White" ELSE "Black"
    /\ draws' = Append(draws, RandomBoolCall)
    /\ pc' = "draw_white_king"
    /\ UNCHANGED <<squares, white_king_pos, black_king_pos, occupied_squares,
                   free_squares_n, free_square_indexes, j, i, k, bk_draw, fen,
                   idxVars>>

\* Draw and place the White King, mark its square, start the count.
DrawWhiteKing ==
    /\ pc = "draw_white_king"
    /\ \E r \in RandomRange(0, N_SQUARES) :
          /\ white_king_pos' = r
          /\ squares' = [squares EXCEPT ![r] = Some("King", "White")]
          /\ occupied_squares' = OccupiedAfterWhiteKing(r)
    /\ draws' = Append(draws, RandomRangeCall(0, N_SQUARES))
    /\ free_squares_n' = InitialFreeSquaresN
    /\ k' = 1
    /\ pc' = "king_moves"
    /\ UNCHANGED <<turn, black_king_pos, free_square_indexes, j, i, bk_draw,
                   fen, idxVars>>

\* One iteration of `for &delta in &KING_MOVES`.
KingMovesStep ==
    /\ pc = "king_moves"
    /\ k <= Len(KING_MOVES)
    /\ LET white_king_file == board_index_reverse(white_king_pos)[1]
           white_king_rank == board_index_reverse(white_king_pos)[2]
           curr_file == white_king_file + KING_MOVES[k][1]
           curr_rank == white_king_rank + KING_MOVES[k][2]
       IN  IF OnBoard(curr_file, curr_rank)
           THEN LET idx == board_index(curr_file, curr_rank)
                IN  IF idx \in 0 .. N_SQUARES - 1
                    THEN /\ occupied_squares' =
                               [occupied_squares EXCEPT ![idx] = TRUE]
                         /\ free_squares_n' = free_squares_n - 1
                         /\ k' = k + 1
                         /\ pc' = pc
                    ELSE \* index out of bounds: panic
                         /\ pc' = "panicked"
                         /\ UNCHANGED <<occupied_squares, free_squares_n, k>>
           ELSE /\ k' = k + 1
                /\ UNCHANGED <<occupied_squares, free_squares_n, pc>>
    /\ UNCHANGED <<squares, turn, white_king_pos, black_king_pos,
                   free_square_indexes, j, i, bk_draw, draws, fen, idxVars>>

\* After the KING_MOVES loop: allocate the zeroed candidate buffer, j = 0.
AllocFreeSquareIndexes ==
    /\ pc = "king_moves"
    /\ k > Len(KING_MOVES)
    /\ free_square_indexes' = [x \in 0 .. FreeSquareIndexesLen - 1 |-> 0]
    /\ j' = 0
    /\ i' = 0
    /\ pc' = "fill"
    /\ UNCHANGED <<squares, turn, white_king_pos, black_king_pos,
                   occupied_squares, free_squares_n, k, bk_draw, draws, fen,
                   idxVars>>

\* One iteration of `for i in 0..N_SQUARES`.
FillStep ==
    /\ pc = "fill"
    /\ i < N_SQUARES
    /\ IF occupied_squares[i]
       THEN /\ i' = i + 1
            /\ UNCHANGED <<free_square_indexes, j, pc>>
       ELSE IF j < FreeSquareIndexesLen
            THEN /\ free_square_indexes' = [free_square_indexes EXCEPT ![j] = i]
                 /\ j' = j + 1
                 /\ i' = i + 1
                 /\ pc' = pc
            ELSE \* write past the buffer: panic
                 /\ pc' = "panicked"
                 /\ UNCHANGED <<free_square_indexes, j, i>>
    /\ UNCHANGED <<squares, turn, white_king_pos, black_king_pos,
                   occupied_squares, free_squares_n, k, bk_draw, draws, fen,
                   idxVars>>

\* Mutant of DrawBlackKing: rejection sampling, any square is drawn and the
\* draw repeated while the square is excluded.
DrawBlackKing_Rejection ==
    /\ pc = "fill"
    /\ i = N_SQUARES
    /\ draws' = Append(draws, RandomRangeCall(0, N_SQUARES))
    /\ \E r \in RandomRange(0, N_SQUARES) :
          /\ bk_draw' = r
          /\ IF occupied_squares[r]
             THEN UNCHANGED <<black_king_pos, squares, pc>>
             ELSE /\ black_king_pos' = r
                  /\ squares' = [squares EXCEPT ![r] = Some("King", "Black")]
                  /\ pc' = "returned"
    /\ UNCHANGED <<turn, white_king_pos, occupied_squares, free_squares_n,
                   free_square_indexes, j, i, k, fen, idxVars>>

\* black_king_pos = free_square_indexes[rng.random_range(0..free_squares_n)],
\* then the Black King is written and the board returned.
DrawBlackKing ==
    /\ pc = "fill"
    /\ i = N_SQUARES
    /\ draws' = Append(draws, RandomRangeCall(0, BlackKingRangeEnd(free_squares_n)))
    /\ IF RandomRange(0, BlackKingRangeEnd(free_squares_n)) = {}
       THEN \* empty range: panic
            /\ pc' = "panicked"
            /\ UNCHANGED <<bk_draw, black_king_pos, squares>>
       ELSE \E r \in RandomRange(0, BlackKingRangeEnd(free_squares_n)) :
               /\ bk_draw' = r
               /\ IF r < FreeSquareIndexesLen
                  THEN /\ black_king_pos' = free_square_indexes[r]
                       /\ squares' =
                             [squares EXCEPT ![free_square_indexes[r]] =
                                                 Some("King", "Black")]
                       /\ pc' = "returned"
                  ELSE \* read past the buffer: panic
                       /\ pc' = "panicked"
                       /\ UNCHANGED <<black_king_pos, squares>>
    /\ UNCHANGED <<turn, white_king_pos, occupied_squares, free_squares_n,
                   free_square_indexes, j, i, k, fen, idxVars>>

----------------------------------------------------------------------------
(* Piece::to_char *)

\* u8::to_ascii_uppercase on the letters to_char produces.
to_ascii_uppercase(c) ==
    CASE c = "p" -> "P"
      [] c = "r" -> "R"
      [] c = "n" -> "N"
      [] c = "b" -> "B"
      [] c = "q" -> "Q"
      [] c = "k" -> "K"
      [] OTHER -> c

to_char(piece) ==
    LET letter == CASE piece.piece_type = "Pawn"   -> "p"
                    [] piece.piece_type = "Rook"   -> "r"
                    [] piece.piece_type = "Knight" -> "n"
                    [] piece.piece_type = "Bishop" -> "b"
                    [] piece.piece_type = "Queen"  -> "q"
                    [] piece.piece_type = "King"   -> "k"
    IN  CASE piece.color = "White" -> to_ascii_uppercase(letter)
          [] piece.color = "Black" -> letter

----------------------------------------------------------------------------
(* Board::to_str_fen *)

DecimalDigits == <<"0", "1", "2", "3", "4", "5", "6", "7", "8", "9">>

\* i32::to_string of a non-negative count: its decimal digits.
RECURSIVE to_string(_)
to_string(n) ==
    IF n < 10
    THEN <<DecimalDigits[n + 1]>>
    ELSE to_string(n \div 10) \o <<DecimalDigits[(n % 10) + 1]>>

\* `if empty_squares_count != 0 { fen.push_str(&count.to_string()) }`
PushCount(text, empty_squares_count) ==
    IF empty_squares_count # 0
    THEN text \o to_string(empty_squares_count)
    ELSE text

\* Mutant of PushCountAtEndOfRank: the trailing empty squares are dropped.
PushCountAtEndOfRank_Missing(text, empty_squares_count) == text

\* The flush at the end of a rank (after the file loop).
PushCountAtEndOfRank(text, empty_squares_count) ==
    PushCount(text, empty_squares_count)

\* `if rank == 0 {break}  fen.push('/')`
PushSeparator(text, rank) ==
    IF rank = 0 THEN text ELSE Append(text, "/")

\* Mutant of FileLoop: the count is not reset to 0 after it is flushed.
RECURSIVE FileLoop_NoReset(_, _, _, _, _)
FileLoop_NoReset(sq, rank, file, empty_squares_count, text) ==
    IF file >= 8
    THEN [text |-> text, empty_squares_count |-> empty_squares_count]
    ELSE LET square == sq[board_index(file, rank)]
         IN  IF square.tag = "Some"
             THEN FileLoop_NoReset(sq, rank, file + 1, empty_squares_count,
                                   Append(PushCount(text, empty_squares_count),
                                          to_char(square)))
             ELSE FileLoop_NoReset(sq, rank, file + 1,
                                   empty_squares_count + 1, text)

\* The inner loop `for file in 0..8` from `file` on.  `text` is what the
\* loop has pushed to fen since the rank began; returns it with the count of
\* empty squares still to be flushed.
RECURSIVE FileLoop(_, _, _, _, _)
FileLoop(sq, rank, file, empty_squares_count, text) ==
    IF file >= 8
    THEN [text |-> text, empty_squares_count |-> empty_squares_count]
    ELSE LET square == sq[board_index(file, rank)]
         IN  IF square.tag = "Some"
             THEN FileLoop(sq, rank, file + 1, 0,
                           Append(PushCount(text, empty_squares_count),
                                  to_char(square)))
             ELSE FileLoop(sq, rank, file + 1, empty_squares_count + 1, text)

\* One iteration of `for rank in (0..8).rev()`: everything it pushes to fen.
RankText(sq, rank) ==
    LET row == FileLoop(sq, rank, 0, 0, << >>)
    IN  PushSeparator(PushCountAtEndOfRank(row.text, row.empty_squares_count),
                      rank)

\* The outer loop `for rank in (0..8).rev()` from `rank` down to 0.
RECURSIVE RankLoop(_, _)
RankLoop(sq, rank) ==
    IF rank = 0
    THEN RankText(sq, rank)
    ELSE RankText(sq, rank) \o RankLoop(sq, rank - 1)

\* Mutant of TurnChar: the two arms exchanged.
TurnChar_Swapped(t) ==
    CASE t = "White" -> "b"
      [] t = "Black" -> "w"

TurnChar(t) ==
    CASE t = "White" -> "w"
      [] t = "Black" -> "b"

FenSuffix == <<" ", "-", " ", "-", " ", "0", " ", "1">>

to_str_fen(sq, t) ==
    (Append(RankLoop(sq, 7), " ") \o <<TurnChar(t)>>) \o FenSuffix

\* random_fen's last statement: board.to_str_fen()
ToStrFen ==
    /\ pc = "returned"
    /\ fen' = to_str_fen(squares, turn)
    /\ pc' = "done"
    /\ UNCHANGED <<squares, turn, white_king_pos, black_king_pos,
                   occupied_squares, free_squares_n, free_square_indexes,
                   j, i, k, bk_draw, draws, idxVars>>

----------------------------------------------------------------------------
(* random_fen: Board::random followed by to_str_fen *)

Next ==
    \/ DrawTurn
    \/ DrawWhiteKing
    \/ KingMovesStep
    \/ AllocFreeSquareIndexes
    \/ FillStep
    \/ DrawBlackKing
    \/ ToStrFen

Spec == Init /\ [][Next]_vars

\* The call is synchronous and single-threaded: it keeps running until it
\* returns.
FairSpec == Spec /\ WF_vars(Next)

----------------------------------------------------------------------------
(* to_str_fen on boards other than those Board::random builds.  The boards *)
(* are: the two kings on any two distinct squares (adjacent ones included),*)
(* any subset of the files filled with one kind of piece on at most        *)
(* MaxFilledRanks ranks (the all-empty board is one of them), and the      *)
(* boards filled with one kind of piece on all 64 squares.                 *)

EmptySquares == [s \in 0 .. N_SQUARES - 1 |-> None]

TwoKingBoards ==
    {[[EmptySquares EXCEPT ![wk] = Some("King", "White")]
                    EXCEPT ![bk] = Some("King", "Black")] :
        <<wk, bk>> \in {p \in (0 .. N_SQUARES - 1) \X (0 .. N_SQUARES - 1) :
                            p[1] # p[2]}}

\* At most this many ranks of a board of RowBoards hold pieces.
MaxFilledRanks == 1

RowBoards ==
    {[s \in 0 .. N_SQUARES - 1 |->
         IF (s \div 8) \in rs /\ (s % 8) \in m THEN p ELSE None] :
        rs \in {x \in SUBSET (0 .. 7) : Cardinality(x) <= MaxFilledRanks},
        m \in SUBSET (0 .. 7), p \in Pieces}

FullBoards == {[s \in 0 .. N_SQUARES - 1 |-> p] : p \in Pieces}

FenBoards == TwoKingBoards \cup RowBoards \cup FullBoards

InitFen ==
    /\ pc = "returned"
    /\ squares \in FenBoards
    /\ turn \in Colors
    /\ white_king_pos = 0
    /\ black_king_pos = 0
    /\ occupied_squares = [s \in 0 .. N_SQUARES - 1 |-> FALSE]
    /\ free_squares_n = 0
    /\ free_square_indexes = [x \in 0 .. FreeSquareIndexesLen - 1 |-> 0]
    /\ j = 0
    /\ i = 0
    /\ k = 1
    /\ bk_draw = NoValue
    /\ draws = << >>
    /\ fen = << >>
    /\ in_file = NoValue
    /\ in_rank = NoValue
    /\ out_index = NoValue
    /\ out_coords = NoValue

NextFen == ToStrFen

SpecFen == InitFen /\ [][NextFen]_vars

----------------------------------------------------------------------------
(* board_index and board_index_reverse applied to every valid (file, rank) *)

InitIdx ==
    /\ pc = "board_index"
    /\ in_file \in 0 .. 7
    /\ in_rank \in 0 .. 7
    /\ out_index = NoValue
    /\ out_coords = NoValue
    /\ squares = Board_new.squares
    /\ turn = Board_new.turn
    /\ white_king_pos = 0
    /\ black_king_pos = 0
    /\ occupied_squares = [s \in 0 .. N_SQUARES - 1 |-> FALSE]
    /\ free_squares_n = 0
    /\ free_square_indexes = [x \in 0 .. FreeSquareIndexesLen - 1 |-> 0]
    /\ j = 0
    /\ i = 0
    /\ k = 1
    /\ bk_draw = NoValue
    /\ draws = << >>
    /\ fen = << >>

boardVars == <<squares, turn, white_king_pos, black_king_pos, occupied_squares,
               free_squares_n, free_square_indexes, j, i, k, bk_draw, draws,
               fen>>

BoardIndex ==
    /\ pc = "board_index"
    /\ out_index' = board_index(in_file, in_rank)
    /\ pc' = "board_index_reverse"
    /\ UNCHANGED <<in_file, in_rank, out_coords, boardVars>>

BoardIndexReverse ==
    /\ pc = "board_index_reverse"
    /\ out_coords' = board_index_reverse(out_index)
    /\ pc' = "idx_done"
    /\ UNCHANGED <<in_file, in_rank, out_index, boardVars>>

NextIdx ==
    \/ BoardIndex
    \/ BoardIndexReverse

SpecIdx == InitIdx /\ [][NextIdx]_vars

----------------------------------------------------------------------------
(* Vocabulary of the properties *)

Squares == 0 .. N_SQUARES - 1

Abs(x) == IF x < 0 THEN -x ELSE x

Max(a, b) == IF a >= b THEN a ELSE b

\* Chebyshev distance max(|dfile|, |drank|) of two squares.
Chebyshev(a, b) ==
    Max(Abs((a % 8) - (b % 8)), Abs((a \div 8) - (b \div 8)))

WhiteKing == Some("King", "White")

BlackKing == Some("King", "Black")

WhiteKingSquares == {s \in Squares : squares[s] = WhiteKing}

BlackKingSquares == {s \in Squares : squares[s] = BlackKing}

\* Board::random has returned its board.
Returned == pc \in {"returned", "done"}

\* The KING_MOVES loop has ended.
KingMovesDone ==
    \/ pc = "king_moves" /\ k > Len(KING_MOVES)
    \/ pc \in {"fill", "returned", "done"}

\* The fill loop has ended and the Black King is about to be drawn.
FillDone == pc = "fill" /\ i = N_SQUARES

ExclusionSet == {s \in Squares : occupied_squares[s]}

\* wk and its on-board king-step neighbours.
KingZone(wk) == {s \in Squares : Chebyshev(s, wk) <= 1}

----------------------------------------------------------------------------
(* C1: on the board returned by Board::random the White King square and    *)
(* the Black King square are distinct and at Chebyshev distance >= 2,      *)
(* whatever the random draws were.                                         *)
C1_KingsNotAdjacent ==
    Returned =>
        /\ squares[white_king_pos] = WhiteKing
        /\ squares[black_king_pos] = BlackKing
        /\ \A a \in WhiteKingSquares : \A b \in BlackKingSquares :
              a # b /\ Chebyshev(a, b) >= 2

\* A returned board with the kings as close as allowed, the Black King in a
\* corner.
C1_Witness ==
    /\ pc = "returned"
    /\ Chebyshev(white_king_pos, black_king_pos) = 2
    /\ black_king_pos = 0

(* C2: the board returned by Board::random holds exactly one White King,   *)
(* exactly one Black King, and the other 62 squares are empty.             *)
C2_ExactlyTwoKings ==
    Returned =>
        /\ Cardinality(WhiteKingSquares) = 1
        /\ Cardinality(BlackKingSquares) = 1
        /\ Cardinality({s \in Squares : squares[s] = None}) = N_SQUARES - 2

\* A returned board with both kings on it, far apart.
C2_Witness ==
    /\ pc = "returned"
    /\ squares[0] = WhiteKing
    /\ squares[N_SQUARES - 1] = BlackKing

(* C7: after the fill loop free_squares_n = j = 64 - |exclusion set|, this *)
(* is at least 1 and at most the buffer length 60; no step writes or reads *)
(* past the buffer or panics, and the drawn index selects an entry the     *)
(* fill loop wrote.                                                        *)
C7_DrawBoundIsFilledCount ==
    /\ pc # "panicked"
    /\ pc = "fill" => j <= FreeSquareIndexesLen
    /\ FillDone =>
          /\ free_squares_n = j
          /\ j = N_SQUARES - Cardinality(ExclusionSet)
          /\ 1 <= free_squares_n
          /\ free_squares_n <= FreeSquareIndexesLen
          /\ DOMAIN free_square_indexes = 0 .. 59
    /\ Returned => bk_draw \in 0 .. j - 1

\* The White King in a corner: the candidates fill the whole buffer.
C7_Witness ==
    /\ FillDone
    /\ free_squares_n = FreeSquareIndexesLen
    /\ j = FreeSquareIndexesLen

(* C8: after the KING_MOVES loop the squares marked occupied are exactly   *)
(* wk and the on-board squares at Chebyshev distance 1 from wk (no         *)
(* wraparound); there are between 4 and 9 of them, {0,1,8,9} for wk = 0    *)
(* and 9 for wk = 27.                                                      *)
C8_ExclusionSetIsKingZone ==
    KingMovesDone =>
        /\ ExclusionSet = KingZone(white_king_pos)
        /\ Cardinality(ExclusionSet) \in 4 .. 9
        /\ white_king_pos = 0 => ExclusionSet = {0, 1, 8, 9}
        /\ white_king_pos = 27 => Cardinality(ExclusionSet) = 9

\* The loop has ended for a White King on an edge square next to a corner.
C8_Witness ==
    /\ pc = "king_moves"
    /\ k > Len(KING_MOVES)
    /\ white_king_pos = 7
    /\ Cardinality(ExclusionSet) = 4

(* C9: after the fill loop the first free_squares_n entries of the         *)
(* candidate buffer are the squares outside the exclusion set, ascending   *)
(* and without repetition; the Black King draw can produce every one of    *)
(* them, each from exactly one draw value, and no excluded square.         *)
C9_CandidatesAreFreeSquares ==
    /\ FillDone =>
          /\ \A x \in 0 .. free_squares_n - 1 :
                \A y \in 0 .. free_squares_n - 1 :
                   x < y => free_square_indexes[x] < free_square_indexes[y]
          /\ {free_square_indexes[x] : x \in 0 .. free_squares_n - 1}
                = Squares \ ExclusionSet
          /\ \A s \in Squares :
                (ENABLED (DrawBlackKing /\ black_king_pos' = s /\ pc' = "returned"))
                   <=> s \notin ExclusionSet
    /\ Returned =>
          /\ black_king_pos = free_square_indexes[bk_draw]
          /\ black_king_pos \notin ExclusionSet
          /\ \A x \in 0 .. free_squares_n - 1 :
                free_square_indexes[x] = black_king_pos => x = bk_draw

\* The last candidate of the list was drawn: the Black King on square 63.
C9_Witness ==
    /\ pc = "returned"
    /\ bk_draw = free_squares_n - 1
    /\ black_king_pos = N_SQUARES - 1

\* The three calls random_fen makes on the random source.
ExpectedDraws ==
    <<RandomBoolCall, RandomRangeCall(0, N_SQUARES),
      RandomRangeCall(0, free_squares_n)>>

DrawsInOrder ==
    /\ Len(draws) <= 3
    /\ \A n \in 1 .. Len(draws) : draws[n] = ExpectedDraws[n]
    /\ pc = "draw_turn" => Len(draws) = 0
    /\ pc = "draw_white_king" => Len(draws) = 1
    /\ pc \in {"king_moves", "fill"} => Len(draws) = 2
    /\ pc \in {"returned", "done"} => Len(draws) = 3
    /\ pc = "done" => fen # << >>

(* C10: every run of random_fen terminates with a string, and the random   *)
(* source is called exactly three times: random_bool for the turn, then    *)
(* random_range(0..64) for the White King, then                            *)
(* random_range(0..free_squares_n) for the Black King; nothing is redrawn. *)
C10_TerminatesWithThreeDraws ==
    /\ <>(pc = "done")
    /\ []DrawsInOrder
    /\ [][draws' # draws => pc' # pc]_vars

\* random_fen has returned its string after the three draws.
C10_Witness ==
    /\ pc = "done"
    /\ Len(draws) = 3
    /\ Len(fen) > 0

----------------------------------------------------------------------------
(* Reading a FEN text *)

Digits == {"0", "1", "2", "3", "4", "5", "6", "7", "8", "9"}

DigitValue(c) ==
    CASE c = "0" -> 0 [] c = "1" -> 1 [] c = "2" -> 2 [] c = "3" -> 3
      [] c = "4" -> 4 [] c = "5" -> 5 [] c = "6" -> 6 [] c = "7" -> 7
      [] c = "8" -> 8 [] c = "9" -> 9

\* Position of the first occurrence of c in text (text holds one).
FirstIndexOf(text, c) ==
    CHOOSE n \in 1 .. Len(text) :
        text[n] = c /\ \A m \in 1 .. n - 1 : text[m] # c

\* The text before the first space.
BoardField(text) == SubSeq(text, 1, FirstIndexOf(text, " ") - 1)

\* The text from the first space on.
AfterBoardField(text) == SubSeq(text, FirstIndexOf(text, " "), Len(text))

\* text split on every occurrence of sep.
RECURSIVE SplitOn(_, _)
SplitOn(text, sep) ==
    IF \A n \in 1 .. Len(text) : text[n] # sep
    THEN <<text>>
    ELSE LET n == FirstIndexOf(text, sep)
         IN  <<SubSeq(text, 1, n - 1)>>
                \o SplitOn(SubSeq(text, n + 1, Len(text)), sep)

\* Sum of the digit values plus the number of other characters.
RECURSIVE SquaresCounted(_)
SquaresCounted(field) ==
    IF field = << >>
    THEN 0
    ELSE (IF Head(field) \in Digits THEN DigitValue(Head(field)) ELSE 1)
            + SquaresCounted(Tail(field))

\* field with every digit d replaced by d dots.
RECURSIVE Expand(_)
Expand(field) ==
    IF field = << >>
    THEN << >>
    ELSE (IF Head(field) \in Digits
          THEN [n \in 1 .. DigitValue(Head(field)) |-> "."]
          ELSE <<Head(field)>>)
            \o Expand(Tail(field))

\* The board drawn as text: ranks 7 down to 0 separated by "/", in a rank
\* the files 0 to 7, "K" / "k" for the kings and "." for an empty square.
KingsGrid ==
    [p \in 1 .. 71 |->
        LET row == (p - 1) \div 9
            col == (p - 1) % 9
        IN  IF col = 8 THEN "/"
            ELSE LET sq == squares[8 * (7 - row) + col]
                 IN  IF sq = WhiteKing THEN "K"
                     ELSE IF sq = BlackKing THEN "k"
                     ELSE "."]

OnlyTwoKings ==
    /\ Cardinality(WhiteKingSquares) = 1
    /\ Cardinality(BlackKingSquares) = 1
    /\ \A s \in Squares : squares[s] \in {None, WhiteKing, BlackKing}

----------------------------------------------------------------------------
(* C3: for every board the board field of to_fen (the text before the      *)
(* first space) split on "/" has exactly 8 fields, none after a trailing   *)
(* separator, and in every field digit values plus piece letters sum to 8. *)
C3_EightFieldsOfEight ==
    pc = "done" =>
        LET fields == SplitOn(BoardField(fen), "/")
        IN  /\ Len(fields) = 8
            /\ \A n \in 1 .. Len(fields) : SquaresCounted(fields[n]) = 8
            /\ BoardField(fen)[Len(BoardField(fen))] # "/"

\* A fully occupied board has been serialised.
C3_Witness ==
    /\ pc = "done"
    /\ \A s \in Squares : squares[s] # None
    /\ Len(BoardField(fen)) = 71

(* C4: for every board the text of to_fen after the board field is one     *)
(* space, the turn character ("w" for White, "b" for Black) and then the   *)
(* literal " - - 0 1", which ends the FEN.                                 *)
C4_TurnAndSuffix ==
    pc = "done" =>
        AfterBoardField(fen) =
            <<" ", IF turn = "White" THEN "w" ELSE "b",
              " ", "-", " ", "-", " ", "0", " ", "1">>

\* A board with Black to move and black bishops ("b") on it was serialised.
C4_Witness ==
    /\ pc = "done"
    /\ turn = "Black"
    /\ squares[0] = Some("Bishop", "Black")

(* C5: for a board holding only a White King and a Black King the board    *)
(* field lists ranks 7 down to 0 and files 0 to 7, writes "K" and "k" for  *)
(* the kings and each maximal run of empty squares of a rank as one count  *)
(* (never "0", never two counts in a row, never across a "/"); wk = 0 and  *)
(* bk = 63 give "7k/8/8/8/8/8/8/K7".                                       *)
C5_TwoKingsBoardField ==
    (pc = "done" /\ OnlyTwoKings) =>
        LET field == BoardField(fen)
        IN  /\ Expand(field) = KingsGrid
            /\ \A n \in 1 .. Len(field) : field[n] # "0"
            /\ \A n \in 1 .. Len(field) - 1 :
                  ~(field[n] \in Digits /\ field[n + 1] \in Digits)
            /\ (squares[0] = WhiteKing /\ squares[63] = BlackKing) =>
                  field = <<"7", "k", "/", "8", "/", "8", "/", "8", "/",
                            "8", "/", "8", "/", "8", "/", "K", "7">>

\* The board of the example was serialised.
C5_Witness ==
    /\ pc = "done"
    /\ OnlyTwoKings
    /\ squares[0] = WhiteKing
    /\ squares[63] = BlackKing
    /\ Len(fen) > 0

(* C6: for all file, rank in [0,8) board_index_reverse(board_index(file,   *)
(* rank)) = (file, rank), and board_index maps the 64 pairs onto the 64    *)
(* distinct indices of [0,64).                                             *)
C6_IndexCoordsInverse ==
    /\ pc \in {"board_index_reverse", "idx_done"} => out_index \in Squares
    /\ pc = "idx_done" => out_coords = <<in_file, in_rank>>
    /\ {board_index(f, r) : f \in 0 .. 7, r \in 0 .. 7} = Squares
    /\ \A f1 \in 0 .. 7, r1 \in 0 .. 7, f2 \in 0 .. 7, r2 \in 0 .. 7 :
          board_index(f1, r1) = board_index(f2, r2) => f1 = f2 /\ r1 = r2

\* (file 7, rank 0) went to index 7 and back.
C6_Witness ==
    /\ pc = "idx_done"
    /\ in_file = 7
    /\ in_rank = 0
    /\ out_index = 7
    /\ out_coords = <<7, 0>>

====
